---- MODULE Spec2Model ----
(***************************************************************************)
(* RaceSession (the TypeScript part of src/flake.nix, lines 30-256): the   *)
(* per-lane timing scan, the pit scan, the snapshot map, the ranking sort, *)
(* the progress scan, the countdown timer and finish()/isFinished().       *)
(*                                                                         *)
(* One action is one event delivered by the ControlUnit (a timing pulse, a *)
(* pit bitmask, a fuel array, a start signal, a connection state), one     *)
(* interval tick, or one call of start()/stop().  RxJS delivers each event *)
(* synchronously through all operators, so an action runs the whole chain: *)
(* filter, groupBy, scan, combineLatest, map, do, the ranking scan + sort  *)
(* and the lap scan, with every finish() they make.                        *)
(*                                                                         *)
(* The observables ranking, lap and timer are cold: the model is the       *)
(* session with all three subscribed from construction on, as the race     *)
(* page does.  Lane bitmasks (mask, active, the pit mask) are modelled as  *)
(* the sets of lane ids whose bit is set; |, & and ~ & 0xff are union,     *)
(* intersection and complement in 0..7.                                    *)
(***************************************************************************)
EXTENDS Integers, Sequences, FiniteSets, TLC

\* ---------------------------------------------------------------- bounds
\* timing pulses arrive for the lanes 0..MaxLane
MaxLane == 1
\* a lane takes no further pulse once it has counted MaxLaps laps
MaxLaps == 3
\* raw timer values of the pulses: 0..MaxTime in Spec, 0..MaxScanTime in
\* SpecScan and SpecRanking, 0..MaxIncTime in SpecIncreasing
MaxTime == 1
MaxScanTime == 2
MaxIncTime == 3
\* in SpecRanking a lane takes no further pulse once it has counted MaxRankLaps laps
MaxRankLaps == 2
\* in SpecTimer the countdown takes MaxTicks ticks
MaxTicks == 12
\* a pit bitmask is taken only while every lane in it counted fewer pit entries
MaxPits == 2
\* the fuel arrays delivered hold 0..MaxFuel for lane 0 and 0 for the others
MaxFuel == 1

\* ------------------------------------------------------- program constants
TIMER_INTERVAL == 500
\* the lanes of the 8-bit masks (& 0xff)
LastLane == 7
\* 1 << i takes i modulo 32
ShiftBits == 32
Lanes == 0..LastLane
\* lane 6 is ignored unless options.auto, lane 7 unless options.pace; the
\* drivers loop ends at i = 6
AutoLane == 6
PaceLane == 7
\* section of a pulse that counts
MainSection == 1

\* ------------------------------------------------------- JavaScript numbers
\* NaN and Infinity are values outside the integers the model computes with
NaN == -1000000
Infinity == 1000000
\* finish() called without a lane id
NoId == -1

IsNaN(x) == x = NaN
\* a number used as a condition: 0, NaN and undefined are false
Truthy(x) == x # 0 /\ x # NaN
\* lhs - rhs
Sub(a, b) ==
  IF a = NaN \/ b = NaN THEN NaN
  ELSE IF a = Infinity /\ b = Infinity THEN NaN
  ELSE IF a = Infinity THEN Infinity
  ELSE IF b = Infinity THEN -Infinity
  ELSE a - b
\* lhs > rhs: false when either side is NaN
Gt(a, b) == a # NaN /\ b # NaN /\ a > b
\* lhs < rhs
Lt(a, b) == a # NaN /\ b # NaN /\ a < b
\* a || b
Or(a, b) == IF Truthy(a) THEN a ELSE b
\* Math.min, Math.max
MathMin(a, b) == IF a = NaN \/ b = NaN THEN NaN ELSE IF a < b THEN a ELSE b
MathMax(a, b) == IF a = NaN \/ b = NaN THEN NaN ELSE IF a > b THEN a ELSE b

\* ------------------------------------------------------------ comparators
numCompareNaNFirst(lhs, rhs) ==
  LET r == Sub(lhs, rhs) IN
  IF ~IsNaN(r) THEN r
  ELSE IF IsNaN(lhs) THEN (IF IsNaN(rhs) THEN 0 ELSE -1)
  ELSE 1

numCompare(lhs, rhs) ==
  LET r == Sub(lhs, rhs) IN
  IF ~IsNaN(r) THEN r
  ELSE IF IsNaN(lhs) THEN (IF IsNaN(rhs) THEN 0 ELSE 1)
  ELSE -1

timeCompareNoDefault(lhs, rhs) == Sub(lhs.bestLap, rhs.bestLap)

timeCompare(lhs, rhs) == Sub(Or(lhs.bestLap, Infinity), Or(rhs.bestLap, Infinity))

raceCompare(lhs, rhs) ==
  Or(rhs.laps - lhs.laps, Or(numCompare(lhs.time, rhs.time), lhs.id - rhs.id))

\* COMPARE[mode]; for any other mode it is undefined, and sort(undefined)
\* compares the strings of the two snapshots, which are equal
COMPARE(mode, lhs, rhs) ==
  IF mode = "race" THEN raceCompare(lhs, rhs)
  ELSE IF mode \in {"practice", "qualifying"} THEN timeCompare(lhs, rhs)
  ELSE 0

\* Array.prototype.sort(compare): a stable sort that reads a NaN result as 0.
\* Insertion from the left; x goes behind every element it does not precede.
RECURSIVE InsertSorted(_, _, _)
InsertSorted(mode, x, sorted) ==
  IF sorted = << >> THEN << x >>
  ELSE LET lastv == sorted[Len(sorted)]
           c == COMPARE(mode, lastv, x)
       IN IF ~IsNaN(c) /\ c > 0
          THEN Append(InsertSorted(mode, x, SubSeq(sorted, 1, Len(sorted) - 1)), lastv)
          ELSE Append(sorted, x)

RECURSIVE SortFrom(_, _, _, _)
SortFrom(mode, cars, i, acc) ==
  IF i > Len(cars) THEN acc
  ELSE SortFrom(mode, cars, i + 1, InsertSorted(mode, cars[i], acc))

Sort(mode, cars) == SortFrom(mode, cars, 1, << >>)

\* ------------------------------------------------------------------ state
VARIABLES
  options,   \* RaceOptions: mode, laps, time, pause, slotmode, auto, pace, drivers (0 = not set)
  mask,      \* this.mask: lanes the timer filter drops
  active,    \* this.active: lanes for which a group was created
  started,   \* this.started
  stopped,   \* this.stopped
  finished,  \* this.finished.value
  bestlap,   \* this.bestlap.value (NoCar = null)
  offset,    \* let offset in createGrid (NaN = undefined)
  grid,      \* the groups of groupBy, in the order they were created
  times,     \* per lane: the state of the times scan
  pitv,      \* per lane: the state of the pit scan (has = it has emitted)
  car,       \* per lane: the last snapshot (publishReplay(1); the ranking scan's array)
  ranking,   \* the last value of this.ranking
  lap,       \* the state of the lap scan: <<current, completed>>
  timer,     \* the state of the countdown scan
  cuMask,    \* the argument of the last cu.setMask()
  cuFuel,    \* the last array of cu.getFuel()
  hasFuel,   \* whether cu.getFuel() has a value to replay
  cuPit,     \* the last bitmask of cu.getPit() (no lane before the first)
  cuStart,   \* the last value of cu.getStart()
  cuState,   \* the last value of cu.getState()
  emits,     \* how many times the last event called this.finished.next(true)
  last,      \* the last event handled
  pc,        \* where the constructor is: "loop" (the drivers loop), "grid", "done"
  loopI,     \* the variable i of the drivers loop
  hist,      \* per lane: the raw times of the pulses the times scan took (SpecIncreasing only)
  ticks      \* how many ticks passed the filter of the countdown (SpecTimer only)

vars == << options, mask, active, started, stopped, finished, bestlap, offset, grid,
           times, pitv, car, ranking, lap, timer, cuMask, cuFuel, hasFuel, cuPit,
           cuStart, cuState, emits, last, pc, loopI, hist, ticks >>

PulseLanes == 0..MaxLane

\* the seed of the times scan
TimeInfo0 == [prev |-> NaN, lastlap |-> NaN, bestlap |-> NaN, laps |-> 0, fini |-> FALSE]
\* the seed of the pit scan
PitInfo0 == [has |-> FALSE, count |-> 0, inpit |-> FALSE]
\* no snapshot yet (a hole of the ranking scan's array)
NoCar == [id |-> NoId, time |-> NaN, lastLap |-> NaN, bestLap |-> NaN, laps |-> 0,
          fuel |-> 0, pits |-> 0, pit |-> FALSE, finished |-> FALSE]

\* the part of the state the handlers change, as one record
Cur ==
  [mask |-> mask, active |-> active, stopped |-> stopped, finished |-> finished,
   bestlap |-> bestlap, offset |-> offset, grid |-> grid, times |-> times,
   pitv |-> pitv, car |-> car, ranking |-> ranking, lap |-> lap, cuMask |-> cuMask,
   cuFuel |-> cuFuel, hasFuel |-> hasFuel, emits |-> 0]

Commit(s) ==
  /\ mask' = s.mask
  /\ active' = s.active
  /\ stopped' = s.stopped
  /\ finished' = s.finished
  /\ bestlap' = s.bestlap
  /\ offset' = s.offset
  /\ grid' = s.grid
  /\ times' = s.times
  /\ pitv' = s.pitv
  /\ car' = s.car
  /\ ranking' = s.ranking
  /\ lap' = s.lap
  /\ cuMask' = s.cuMask
  /\ cuFuel' = s.cuFuel
  /\ hasFuel' = s.hasFuel
  /\ emits' = s.emits

\* ------------------------------------------------------------- RaceSession
\* finish() that adds only the lane passed to it
finishOnlyLane(s, id) ==
  LET m == s.mask \cup (IF id = NoId THEN {} ELSE {id})
  IN [s EXCEPT !.mask = m,
               !.cuMask = IF m # s.mask THEN m ELSE @,
               !.finished = TRUE,
               !.emits = @ + 1]

\* a finish that does not add the bit of the lane that finished
finishNoLane(s, id) ==
  LET m == s.mask \cup (Lanes \ s.active)
  IN [s EXCEPT !.mask = m,
               !.cuMask = IF m # s.mask THEN m ELSE @,
               !.finished = TRUE,
               !.emits = @ + 1]

\* finish(id?)
finish(s, id) ==
  LET m == (s.mask \cup (Lanes \ s.active)) \cup (IF id = NoId THEN {} ELSE {id})
  IN [s EXCEPT !.mask = m,
               !.cuMask = IF m # s.mask THEN m ELSE @,
               !.finished = TRUE,
               !.emits = @ + 1]

\* an isFinished that takes the finish of another lane in slot mode too
isFinishedAnyMode(s, laps) ==
  IF s.stopped THEN TRUE
  ELSE IF options.laps # 0 /\ laps >= options.laps THEN TRUE
  ELSE IF s.finished THEN TRUE
  ELSE FALSE

\* isFinished(laps)
isFinished(s, laps) ==
  IF s.stopped THEN TRUE
  ELSE IF options.laps # 0 /\ laps >= options.laps THEN TRUE
  ELSE IF ~options.slotmode /\ s.finished THEN TRUE
  ELSE FALSE

\* a times scan that keeps the last lap as the best lap
timesScanNoMin(s, id, time) ==
  LET t == s.times[id] IN
  IF Gt(time, t.prev)
  THEN LET laps == t.laps + 1
           fin == ~t.fini /\ isFinished(s, laps)
           s1 == IF fin THEN finish(s, id) ELSE s
           info == [prev |-> time,
                    lastlap |-> Sub(time, t.prev),
                    bestlap |-> Sub(time, t.prev),
                    laps |-> laps,
                    fini |-> IF fin THEN TRUE ELSE t.fini]
       IN [s1 EXCEPT !.times[id] = info]
  ELSE [s EXCEPT !.times[id] =
          [prev |-> time, lastlap |-> NaN, bestlap |-> t.bestlap, laps |-> t.laps,
           fini |-> t.fini]]

\* a times scan whose stale branch forgets the best lap
timesScanStaleReset(s, id, time) ==
  LET t == s.times[id] IN
  IF Gt(time, t.prev)
  THEN LET laps == t.laps + 1
           fin == ~t.fini /\ isFinished(s, laps)
           s1 == IF fin THEN finish(s, id) ELSE s
           info == [prev |-> time,
                    lastlap |-> Sub(time, t.prev),
                    bestlap |-> MathMin(Sub(time, t.prev), Or(t.bestlap, Infinity)),
                    laps |-> laps,
                    fini |-> IF fin THEN TRUE ELSE t.fini]
       IN [s1 EXCEPT !.times[id] = info]
  ELSE [s EXCEPT !.times[id] =
          [prev |-> time, lastlap |-> NaN, bestlap |-> NaN, laps |-> t.laps,
           fini |-> t.fini]]

\* the accumulator of the times scan, for one pulse of lane id
timesScan(s, id, time) ==
  LET t == s.times[id] IN
  IF Gt(time, t.prev)
  THEN LET laps == t.laps + 1
           fin == ~t.fini /\ isFinished(s, laps)
           s1 == IF fin THEN finish(s, id) ELSE s
           info == [prev |-> time,
                    lastlap |-> Sub(time, t.prev),
                    bestlap |-> MathMin(Sub(time, t.prev), Or(t.bestlap, Infinity)),
                    laps |-> laps,
                    fini |-> IF fin THEN TRUE ELSE t.fini]
       IN [s1 EXCEPT !.times[id] = info]
  ELSE [s EXCEPT !.times[id] =
          [prev |-> time, lastlap |-> NaN, bestlap |-> t.bestlap, laps |-> t.laps,
           fini |-> t.fini]]

\* a lap scan that takes the laps of every snapshot as the completed lap
lapScanNoGuard(s, event) ==
  LET current == s.lap[1]
      s1 == IF options.laps # 0 /\ event.laps >= options.laps
            THEN finish(s, NoId) ELSE s
      cur1 == IF ~s1.finished /\ event.laps >= current
              THEN event.laps + 1 ELSE current
  IN [s1 EXCEPT !.lap = << cur1, event.laps >>]

\* a lap scan that moves the current lap on after the session has finished
lapScanNoFreeze(s, event) ==
  LET current == s.lap[1]
      completed == s.lap[2]
  IN IF completed <= event.laps
     THEN LET s1 == IF options.laps # 0 /\ event.laps >= options.laps
                    THEN finish(s, NoId) ELSE s
              cur1 == IF event.laps >= current THEN event.laps + 1 ELSE current
          IN [s1 EXCEPT !.lap = << cur1, event.laps >>]
     ELSE s

\* the accumulator of the lap scan, for one snapshot
lapScan(s, event) ==
  LET current == s.lap[1]
      completed == s.lap[2]
  IN IF completed <= event.laps
     THEN LET s1 == IF options.laps # 0 /\ event.laps >= options.laps
                    THEN finish(s, NoId) ELSE s
              cur1 == IF ~s1.finished /\ event.laps >= current
                      THEN event.laps + 1 ELSE current
          IN [s1 EXCEPT !.lap = << cur1, event.laps >>]
     ELSE s

\* cars.filter(car => !!car): the snapshots in lane order
RECURSIVE Cars(_, _)
Cars(c, i) ==
  IF i > LastLane THEN << >>
  ELSE IF c[i] = NoCar THEN Cars(c, i + 1)
  ELSE << c[i] >> \o Cars(c, i + 1)

\* the ranking scan and its sort, for one snapshot
rankingScan(s, event) ==
  LET newgrid == [s.car EXCEPT ![event.id] = event]
  IN [s EXCEPT !.car = newgrid, !.ranking = Sort(options.mode, Cars(newgrid, 0))]

\* a map that measures time from the lane's own raw time when no offset is
\* set, and never keeps an offset apart from it
raceItemRawTime(s, id) ==
  LET t == s.times[id]
  IN [id |-> id, time |-> t.prev, lastLap |-> t.lastlap,
      bestLap |-> t.bestlap, laps |-> t.laps, fuel |-> s.cuFuel[id],
      pits |-> s.pitv[id].count, pit |-> s.pitv[id].inpit, finished |-> t.fini]

\* the map of combineLatest([times, pits, fuel]) to a RaceItem; sets offset
raceItem(s, id) ==
  LET t == s.times[id]
      off == IF Truthy(s.offset) THEN s.offset ELSE t.prev
  IN [id |-> id, time |-> Sub(t.prev, off), lastLap |-> t.lastlap,
      bestLap |-> t.bestlap, laps |-> t.laps, fuel |-> s.cuFuel[id],
      pits |-> s.pitv[id].count, pit |-> s.pitv[id].inpit, finished |-> t.fini]

\* one emission of a lane's combineLatest: map, do (best lap), then the
\* subscribers of the snapshot: the ranking scan and the lap scan
emitCar(s, id) ==
  IF ~(s.pitv[id].has /\ s.hasFuel) THEN s
  ELSE LET c == raceItem(s, id)
           s1 == [s EXCEPT !.offset = IF Truthy(@) THEN @ ELSE s.times[id].prev,
                           !.bestlap = IF Truthy(c.bestLap)
                                          /\ (@ = NoCar \/ Lt(c.bestLap, @.bestLap))
                                       THEN c ELSE @]
       IN lapScan(rankingScan(s1, c), c)

\* what cu.getPit() delivers to the pit scan of lane id when it subscribes:
\* the stream is hot and replays nothing, so the lane has no pit value until
\* the next bitmask
pitOnSubscribe(s, id) == s

\* groupBy: the first pulse of a lane creates its group
newGroup(s, id) ==
  IF id \in s.active THEN s
  ELSE pitOnSubscribe([s EXCEPT !.active = @ \cup {id}, !.grid = Append(@, id)], id)

\* ---------------------------------------------------------------- actions
\* The last event that got past its filters.  An event that every filter drops
\* (a pulse of an ignored lane or of another section, a pit mask or fuel array
\* that distinctUntilChanged drops for every lane, a tick while the countdown
\* is gated) runs no handler and changes nothing: it is a stuttering step.
\* For a pulse, last holds the lane and what the times scan made of it: the
\* lane's first pulse, a lap, or a stale pulse.
Event(op) == [op |-> op, id |-> NoId, kind |-> "none"]

pulseKind(id, time) ==
  IF times[id].prev = NaN THEN "first"
  ELSE IF Gt(time, times[id].prev) THEN "lap"
  ELSE "stale"

\* the filters on cu.getTimer() without the lane-ignore mask
timerPassesAnyLane(id, section) == section = MainSection

\* the two filters on cu.getTimer()
timerPasses(id, section) == id \notin mask /\ section = MainSection

\* cu.getTimer() delivers [id, time, section]
Pulse(id, time, section) ==
  /\ timerPasses(id, section)
  /\ Commit(emitCar(timesScan(newGroup(Cur, id), id, time), id))
  /\ last' = [op |-> "pulse", id |-> id, kind |-> pulseKind(id, time)]
  /\ UNCHANGED << options, pc, loopI, cuPit, started, timer, cuStart, cuState, ticks >>

\* the pit scans of the lanes, in the order the lanes subscribed
RECURSIVE pitScan(_, _, _)
pitScan(s, m, i) ==
  IF i > Len(s.grid) THEN s
  ELSE LET id == s.grid[i]
           inpit == id \in m
           p == s.pitv[id]
       IN IF p.has /\ p.inpit = inpit
          THEN pitScan(s, m, i + 1)
          ELSE pitScan(emitCar([s EXCEPT !.pitv[id] =
                                  [has |-> TRUE,
                                   count |-> IF inpit THEN p.count + 1 ELSE p.count,
                                   inpit |-> inpit]], id),
                       m, i + 1)

\* whether distinctUntilChanged of lane id lets the bit of bitmask m through
takesPit(id, m) ==
  /\ id \in active
  /\ ~pitv[id].has \/ pitv[id].inpit # (id \in m)

\* cu.getPit() delivers a bitmask; one that is the last one again and that no
\* lane takes changes nothing
Pit(m) ==
  /\ \A id \in m : takesPit(id, m) => pitv[id].count < MaxPits
  /\ ~(m = cuPit /\ \A id \in Lanes : ~takesPit(id, m))
  /\ cuPit' = m
  /\ Commit(pitScan(Cur, m, 1))
  /\ last' = Event("pit")
  /\ UNCHANGED << options, pc, loopI, started, timer, cuStart, cuState, hist, ticks >>

\* the fuel projections of the lanes, in the order the lanes subscribed
RECURSIVE fuelScan(_, _, _, _)
fuelScan(s, old, had, i) ==
  IF i > Len(s.grid) THEN s
  ELSE LET id == s.grid[i]
       IN IF had /\ old[id] = s.cuFuel[id]
          THEN fuelScan(s, old, had, i + 1)
          ELSE fuelScan(emitCar(s, id), old, had, i + 1)

\* cu.getFuel() delivers an array
Fuel(f) ==
  /\ ~hasFuel \/ f # cuFuel
  /\ Commit(fuelScan([Cur EXCEPT !.cuFuel = f, !.hasFuel = TRUE], cuFuel, hasFuel, 1))
  /\ last' = Event("fuel")
  /\ UNCHANGED << options, pc, loopI, cuPit, started, timer, cuStart, cuState, hist, ticks >>

\* start()
Start ==
  /\ ~started
  /\ started' = TRUE
  /\ Commit(Cur)
  /\ last' = Event("start")
  /\ UNCHANGED << options, pc, loopI, cuPit, timer, cuStart, cuState, hist, ticks >>

\* stop()
Stop ==
  /\ Commit(finish([Cur EXCEPT !.stopped = TRUE], NoId))
  /\ last' = Event("stop")
  /\ UNCHANGED << options, pc, loopI, cuPit, started, timer, cuStart, cuState, hist, ticks >>

\* the filter of the countdown
timerFilter == started /\ (~options.pause \/ cuStart = 0)

\* Observable.interval(TIMER_INTERVAL) fires and the tick passes the filter
Tick ==
  /\ options.time # 0
  /\ timerFilter
  /\ LET time == MathMax(0, timer - TIMER_INTERVAL)
     IN /\ timer' = time
        /\ Commit(IF time = 0
                  THEN finish([Cur EXCEPT !.stopped = TRUE], NoId)
                  ELSE Cur)
  /\ last' = Event("tick")
  /\ UNCHANGED << options, pc, loopI, cuPit, started, cuStart, cuState, hist >>

\* cu.getStart() delivers a value; a changed nonzero value re-sends the mask
StartSignal(v) ==
  /\ v # cuStart
  /\ cuStart' = v
  /\ Commit(IF v # cuStart /\ v # 0 THEN [Cur EXCEPT !.cuMask = mask] ELSE Cur)
  /\ last' = Event("signal")
  /\ UNCHANGED << options, pc, loopI, cuPit, started, timer, cuState, hist, ticks >>

\* cu.getState() delivers a value; a change to connected re-sends the mask
State(v) ==
  /\ v # cuState
  /\ cuState' = v
  /\ Commit(IF v # cuState /\ v = "connected" THEN [Cur EXCEPT !.cuMask = mask] ELSE Cur)
  /\ last' = Event("state")
  /\ UNCHANGED << options, pc, loopI, cuPit, started, timer, cuStart, hist, ticks >>

\* ------------------------------------------------------------ construction
\* for (let i = options.drivers; i !== 6; ++i) this.mask |= (1 << i)
RECURSIVE driversLoop(_, _)
driversLoop(i, m) == IF i = AutoLane THEN m ELSE driversLoop(i + 1, m \cup {i})

\* this.mask as the constructor computes it
initMask(o) ==
  LET m == (IF o.auto THEN {} ELSE {AutoLane}) \cup (IF o.pace THEN {} ELSE {PaceLane})
  IN IF o.drivers # 0 THEN driversLoop(o.drivers, m) ELSE m

\* the lanes createGrid seeds with [i, NaN, undefined], in the order of init
RECURSIVE seedLanes(_, _)
seedLanes(m, i) ==
  IF i > LastLane THEN << >>
  ELSE IF i \in m THEN << i >> \o seedLanes(m, i + 1)
  ELSE seedLanes(m, i + 1)

SeqSet(q) == { q[i] : i \in 1..Len(q) }

Option(mode, laps, time, pause, slotmode, auto, pace, drivers) ==
  [mode |-> mode, laps |-> laps, time |-> time, pause |-> pause,
   slotmode |-> slotmode, auto |-> auto, pace |-> pace, drivers |-> drivers]

\* the session after new RaceSession(cu, o), with ranking, lap and timer subscribed
Constructed(o, start) ==
  /\ options = o
  /\ mask = initMask(o)
  /\ grid = IF o.drivers # 0 THEN seedLanes(Lanes \ initMask(o), 0) ELSE << >>
  /\ active = SeqSet(grid)
  /\ started = FALSE
  /\ stopped = FALSE
  /\ finished = FALSE
  /\ bestlap = NoCar
  /\ offset = NaN
  /\ times = [id \in Lanes |-> TimeInfo0]
  /\ pitv = [id \in Lanes |-> PitInfo0]
  /\ car = [id \in Lanes |-> NoCar]
  /\ ranking = << >>
  /\ lap = << 0, 0 >>
  /\ timer = o.time
  /\ cuMask = initMask(o)
  /\ cuFuel = [id \in Lanes |-> 0]
  /\ hasFuel = FALSE
  /\ cuPit = {}
  /\ cuStart = start
  /\ cuState = "connected"
  /\ emits = 0
  /\ pc = "done"
  /\ loopI = o.drivers
  /\ last = Event("init")
  /\ hist = [id \in Lanes |-> << >>]
  /\ ticks = 0

\* ---------------------------------------------------------- specifications
\* the lap limit and the time limit of the sessions that have one
LapLimit == 2
TimeLimit == TIMER_INTERVAL

FuelArrays(maxFuel) == { [id \in Lanes |-> IF id = 0 THEN v ELSE 0] : v \in 0..maxFuel }

\* the pulses the control unit sends: any lane of PulseLanes, any raw time up
\* to maxTime, either section; a lane at maxLaps laps sends no more
Pulses(maxTime, maxLaps) ==
  \E id \in PulseLanes, time \in 0..maxTime, section \in {1, 2} :
    /\ times[id].laps < maxLaps
    /\ Pulse(id, time, section)
    /\ UNCHANGED hist

\* a tick of the countdown that is not counted
UncountedTick == Tick /\ UNCHANGED ticks

\* a tick of the countdown that is counted, up to maxTicks
CountedTick(maxTicks) == ticks < maxTicks /\ ticks' = ticks + 1 /\ Tick

\* Spec: race sessions with and without a lap limit, a time limit, slot mode
\* and pre-declared drivers, with start(), stop() and the countdown.  No car
\* enters the pit lane and the fuel array is delivered once.
Options ==
  { Option("race", l, t, FALSE, sm, TRUE, TRUE, d) :
      l \in {0, LapLimit}, t \in {0, TimeLimit}, sm \in BOOLEAN, d \in {0, 1} }

Init == \E o \in Options : Constructed(o, 0)

Next ==
  \/ Pulses(MaxTime, MaxLaps)
  \/ Pit({})
  \/ \E f \in FuelArrays(0) : Fuel(f)
  \/ Start
  \/ Stop
  \/ UncountedTick

Spec == Init /\ [][Next]_vars

\* SpecScan: sessions that only a lap limit ends, with longer raw times and a
\* fuel level that changes, so that lanes emit snapshots between their pulses.
ScanOptions ==
  { Option("race", 0, 0, FALSE, FALSE, TRUE, TRUE, d) : d \in {0, 2} }

InitScan == \E o \in ScanOptions : Constructed(o, 0)

NextScan ==
  \/ Pulses(MaxScanTime, MaxLaps)
  \/ Pit({})
  \/ \E f \in FuelArrays(MaxFuel) : Fuel(f)

SpecScan == InitScan /\ [][NextScan]_vars

\* SpecIncreasing: every lane receives pulses with strictly increasing raw
\* times, in a session with no lap limit, no time limit and no stop(); hist
\* keeps the raw times each lane received.
IncOptions ==
  { Option("race", 0, 0, FALSE, FALSE, TRUE, TRUE, d) : d \in {0, 2} }

InitInc == \E o \in IncOptions : Constructed(o, 0)

IncPulse ==
  \E id \in PulseLanes, time \in 0..MaxIncTime :
    /\ IF hist[id] = << >> THEN TRUE ELSE time > hist[id][Len(hist[id])]
    /\ Pulse(id, time, MainSection)
    /\ hist' = [hist EXCEPT ![id] = Append(@, time)]

NextInc ==
  \/ IncPulse
  \/ Pit({})
  \/ \E f \in FuelArrays(0) : Fuel(f)

SpecIncreasing == InitInc /\ [][NextInc]_vars

\* SpecRanking: sessions of the three modes, without and with pre-declared
\* drivers (lanes 0..2 and the lanes 6 and 7 are then in the table from the
\* first pit mask and fuel array on).
RankOptions ==
  { Option(m, 0, 0, FALSE, FALSE, TRUE, TRUE, d) :
      m \in {"practice", "qualifying", "race"}, d \in {0, 3} }

InitRanking == \E o \in RankOptions : Constructed(o, 0)

NextRanking ==
  \/ Pulses(MaxScanTime, MaxRankLaps)
  \/ Pit({})
  \/ \E f \in FuelArrays(0) : Fuel(f)

SpecRanking == InitRanking /\ [][NextRanking]_vars

\* SpecPit: sessions without limits where cars enter and leave the pit lane,
\* before and after their lanes have pulsed, without and with pre-declared
\* drivers.
MaxPitLaps == 1

PitOptions ==
  { Option("race", 0, 0, FALSE, FALSE, TRUE, TRUE, d) : d \in {0, 2} }

InitPit == \E o \in PitOptions : Constructed(o, 0)

NextPit ==
  \/ Pulses(MaxTime, MaxPitLaps)
  \/ \E m \in SUBSET PulseLanes : Pit(m)
  \/ \E f \in FuelArrays(0) : Fuel(f)

SpecPit == InitPit /\ [][NextPit]_vars

\* SpecTimer: time-limited sessions of 5000 ms, with and without pause, the
\* start signal and the connection state changing at any time.
CountdownTime == 10 * TIMER_INTERVAL

TimerOptions ==
  { Option("race", 0, CountdownTime, p, FALSE, TRUE, TRUE, 0) : p \in BOOLEAN }

InitTimer == \E o \in TimerOptions, start \in {0, 1} : Constructed(o, start)

NextTimer ==
  \/ Start
  \/ Stop
  \/ CountedTick(MaxTicks)
  \/ \E v \in {0, 1} : StartSignal(v)
  \/ \E v \in {"connected", "disconnected"} : State(v)

SpecTimer == InitTimer /\ [][NextTimer]_vars

\* ------------------------------------------------------------------ claims
\* the smallest gap between consecutive raw times of h (NaN: fewer than two)
RECURSIVE MinGapFrom(_, _)
MinGapFrom(h, i) ==
  IF i >= Len(h) THEN Infinity ELSE MathMin(h[i + 1] - h[i], MinGapFrom(h, i + 1))

MinGap(h) == IF Len(h) < 2 THEN NaN ELSE MinGapFrom(h, 1)

\* SpecConstruct: the constructor, step by step, for every mode (one that is
\* not a key of COMPARE included), auto, pace and every drivers of 0..8, and
\* then the first events of the session it made.
Modes == {"practice", "qualifying", "race"}
MaxDrivers == 8

ConstructOptions ==
  { Option(m, 0, 0, FALSE, FALSE, a, p, d) :
      m \in Modes \cup {"unknown"}, a \in BOOLEAN, p \in BOOLEAN, d \in 0..MaxDrivers }

\* new RaceSession(cu, o) has set this.mask from auto and pace
InitConstruct ==
  \E o \in ConstructOptions :
    /\ options = o
    /\ mask = (IF o.auto THEN {} ELSE {AutoLane}) \cup (IF o.pace THEN {} ELSE {PaceLane})
    /\ grid = << >>
    /\ active = {}
    /\ started = FALSE
    /\ stopped = FALSE
    /\ finished = FALSE
    /\ bestlap = NoCar
    /\ offset = NaN
    /\ times = [id \in Lanes |-> TimeInfo0]
    /\ pitv = [id \in Lanes |-> PitInfo0]
    /\ car = [id \in Lanes |-> NoCar]
    /\ ranking = << >>
    /\ lap = << 0, 0 >>
    /\ timer = o.time
    /\ cuMask = {}
    /\ cuFuel = [id \in Lanes |-> 0]
    /\ hasFuel = FALSE
    /\ cuPit = {}
    /\ cuStart = 0
    /\ cuState = "connected"
    /\ emits = 0
    /\ pc = IF o.drivers # 0 THEN "loop" ELSE "grid"
    /\ loopI = o.drivers
    /\ last = Event("new")
    /\ hist = [id \in Lanes |-> << >>]
    /\ ticks = 0

ConstructFrame ==
  UNCHANGED << options, started, stopped, finished, bestlap, offset, times, pitv,
               car, ranking, lap, timer, cuFuel, hasFuel, cuPit, cuStart, cuState,
               emits, hist, ticks >>

\* ++i.  The loop reads i in i !== 6 and in 1 << i, which takes i modulo 32:
\* a value of 64 or more is kept as the value of 32..63 that shifts alike
\* and, like it, is not 6.
increment(i) == IF i + 1 = 2 * ShiftBits THEN ShiftBits ELSE i + 1

\* a turn of the drivers loop that sets the bit of the next lane
LoopStepNextLane ==
  /\ pc = "loop"
  /\ loopI # AutoLane
  /\ mask' = mask \cup {(loopI + 1) % ShiftBits}
  /\ loopI' = increment(loopI)
  /\ last' = Event("loop")
  /\ ConstructFrame
  /\ UNCHANGED << pc, grid, active, cuMask >>

\* one turn of for (let i = options.drivers; i !== 6; ++i) this.mask |= (1 << i)
LoopStep ==
  /\ pc = "loop"
  /\ loopI # AutoLane
  /\ mask' = mask \cup {loopI % ShiftBits}
  /\ loopI' = increment(loopI)
  /\ last' = Event("loop")
  /\ ConstructFrame
  /\ UNCHANGED << pc, grid, active, cuMask >>

\* the loop ends: i !== 6 is false
LoopExit ==
  /\ pc = "loop"
  /\ loopI = AutoLane
  /\ pc' = "grid"
  /\ last' = Event("exit")
  /\ ConstructFrame
  /\ UNCHANGED << loopI, mask, grid, active, cuMask >>

\* the rest of the constructor: createGrid with its seeds, COMPARE[options.mode]
\* (no check), the streams, cu.setMask(this.mask)
ConstructRest ==
  /\ pc = "grid"
  /\ grid' = IF options.drivers # 0 THEN seedLanes(Lanes \ mask, 0) ELSE << >>
  /\ active' = SeqSet(grid')
  /\ cuMask' = mask
  /\ pc' = "done"
  /\ loopI' = 0
  /\ last' = Event("init")
  /\ ConstructFrame
  /\ UNCHANGED mask

NextConstruct ==
  \/ LoopStep
  \/ LoopExit
  \/ ConstructRest
  \/ pc = "done" /\ Pulses(0, MaxPitLaps)
  \/ pc = "done" /\ Pit({})
  \/ pc = "done" /\ \E f \in FuelArrays(0) : Fuel(f)

SpecConstruct == InitConstruct /\ [][NextConstruct]_vars

\* the constructor's steps are taken as long as one is possible
FairConstruct == SpecConstruct /\ WF_vars(LoopStep \/ LoopExit \/ ConstructRest)

\* C1 as stated: a lane that received strictly increasing pulses (no lap
\* limit, no stop) has counted one lap per pulse, and its bestLap is the
\* smallest gap between consecutive pulses.
C1_LapPerPulse ==
  \A id \in Lanes :
    /\ times[id].laps = Len(hist[id])
    /\ Len(hist[id]) >= 2 => times[id].bestlap = MinGap(hist[id])

\* C1 amended: the lane's first pulse only sets the reference time, every
\* later pulse counts one lap: after n >= 1 pulses laps = n - 1, and bestLap is
\* the smallest gap between consecutive pulses (NaN while n < 2); the
\* lane's snapshot shows the same laps and bestLap.
C1_LapPerPulseAfterFirst ==
  \A id \in Lanes :
    /\ times[id].laps = (IF hist[id] = << >> THEN 0 ELSE Len(hist[id]) - 1)
    /\ times[id].bestlap = MinGap(hist[id])
    /\ car[id] # NoCar =>
         car[id].laps = times[id].laps /\ car[id].bestLap = times[id].bestlap

\* a lane received three pulses with gaps that differ, the smallest not the last
C1_Witness ==
  \E id \in Lanes :
    /\ Len(hist[id]) = 3
    /\ times[id].laps = 2
    /\ car[id] # NoCar
    /\ car[id].bestLap < car[id].lastLap

\* some lane has completed the lap limit
LimitReached == options.laps # 0 /\ \E id \in Lanes : times[id].laps >= options.laps

\* C2: in a lap-limited race, the pulse with which the first lane completes
\* its N-th lap makes finished emit true exactly once (not at all when a
\* stop or the countdown had made it emit before), and no later event makes
\* it emit true again.
C2_FinishedOnce ==
  [][LimitReached' => emits' = (IF LimitReached \/ finished THEN 0 ELSE 1)]_vars

\* C3 as stated: after the session finished, the mask held by the session and
\* the mask sent to the hardware contain every lane that produced no real
\* timing pulse, pre-declared lanes with only their seed pulse included.
C3_NoPulseLanesIgnored ==
  finished => \A id \in Lanes : times[id].prev = NaN => id \in mask /\ id \in cuMask

\* C3 amended: after the session finished, the mask held by the session is the
\* one sent to the hardware and contains every lane for which no group exists:
\* the lanes that were not pre-declared and produced no timing pulse.  (A
\* pre-declared lane is active by its seed pulse and is not added.)
C3_InactiveLanesIgnored ==
  finished => (Lanes \ active) \subseteq mask /\ cuMask = mask

\* the session finished and finish() added a lane without any pulse to the
\* mask, while a lane that had sent pulses stays out of it
C3_Witness ==
  /\ finished
  /\ \E id \in mask \ initMask(options) : times[id].prev = NaN /\ id \in cuMask
  /\ \E id \in Lanes \ mask : times[id].prev # NaN

\* lhs stands above rhs in a race: more laps; with equal laps the smaller
\* time, a real time above NaN; with equal laps and equal or both-NaN times
\* the smaller lane id
RaceAbove(lhs, rhs) ==
  \/ lhs.laps > rhs.laps
  \/ /\ lhs.laps = rhs.laps
     /\ \/ Lt(lhs.time, rhs.time)
        \/ lhs.time # NaN /\ rhs.time = NaN
        \/ lhs.time = rhs.time /\ lhs.id < rhs.id

\* the ranking lists exactly the lanes that have a snapshot, each once, with
\* its last snapshot
RankingOfCars ==
  /\ Len(ranking) = Cardinality({ id \in Lanes : car[id] # NoCar })
  /\ \A i \in 1..Len(ranking) : ranking[i] = car[ranking[i].id] /\ ranking[i] # NoCar

\* C4: in race mode every emitted ranking lists the snapshots so that of any
\* two lanes the one with more laps is higher, with equal laps the one with
\* the smaller time, a real time above NaN, and with equal laps and equal or
\* both-NaN times the one with the smaller id.
C4_RaceOrder ==
  options.mode = "race" =>
    /\ RankingOfCars
    /\ \A i, j \in 1..Len(ranking) : i < j => RaceAbove(ranking[i], ranking[j])

\* a race ranking of five lanes in which a lane with more laps and a larger
\* time stands above a lane of smaller id, both above the lanes with NaN times
\* and no laps, which are in id order
C4_Witness ==
  /\ options.mode = "race"
  /\ Len(ranking) >= 5
  /\ \E i, j \in 1..Len(ranking) :
       /\ i < j /\ ranking[i].id > ranking[j].id
       /\ ranking[i].laps > ranking[j].laps
       /\ Lt(ranking[j].time, ranking[i].time)
       /\ \E k \in 1..Len(ranking) :
            j < k /\ ranking[k].laps = ranking[j].laps /\ ranking[k].time = NaN
  /\ \E i, j \in 1..Len(ranking) :
       i < j /\ ranking[i].time = NaN /\ ranking[j].time = NaN

\* C5: in practice and qualifying mode every emitted ranking has the lanes
\* without a bestLap (NaN) below all lanes with a real bestLap, whatever their
\* laps, and the lanes with a real bestLap in ascending bestLap order.
C5_BestLapOrder ==
  options.mode \in {"practice", "qualifying"} =>
    /\ RankingOfCars
    /\ \A i, j \in 1..Len(ranking) : i < j =>
         /\ ranking[i].bestLap = NaN => ranking[j].bestLap = NaN
         /\ ranking[j].bestLap # NaN => ranking[i].bestLap <= ranking[j].bestLap

\* a practice or qualifying ranking in which a lane stands above a lane of
\* smaller id with more laps and a larger bestLap, both above a lane without
\* a bestLap
C5_Witness ==
  /\ options.mode \in {"practice", "qualifying"}
  /\ \E i, j \in 1..Len(ranking) :
       /\ i < j /\ ranking[i].id > ranking[j].id
       /\ ranking[i].laps < ranking[j].laps
       /\ ranking[j].bestLap # NaN /\ ranking[i].bestLap < ranking[j].bestLap
       /\ \E k \in 1..Len(ranking) : j < k /\ ranking[k].bestLap = NaN

\* C6: with time = 5000, no pause and the session started, every tick takes
\* 500 ms off the countdown down to 0, where it stays, and the session finish
\* is triggered by the tick that brings the countdown to 0 and by no other.
C6_CountdownFinishesOnce ==
  [][(ticks' = ticks + 1 /\ ~options.pause /\ options.time = CountdownTime) =>
       /\ timer' = (IF timer >= TIMER_INTERVAL THEN timer - TIMER_INTERVAL ELSE 0)
       /\ emits' = (IF timer > 0 /\ timer' = 0 THEN 1 ELSE 0)]_vars

\* C7: from one value of the lap progress to the next, whichever lane the
\* snapshot behind it comes from, the completed lap never decreases.
C7_LapNeverDecreases ==
  [][lap'[2] >= lap[2]]_vars

\* a lane that is behind reports a new lap after the progress is ahead of it
C7_Witness ==
  /\ last.op = "pulse" /\ last.kind = "lap"
  /\ car[last.id] # NoCar
  /\ car[last.id].laps >= 1
  /\ car[last.id].laps < lap[2]

\* C8: the time of a lane's snapshot never decreases from one snapshot of the
\* lane to the next, pulses with a raw time not above the previous one included.
C8_TimeNeverDecreases ==
  [][\A id \in Lanes :
       (car[id] # NoCar /\ car'[id] # NoCar) => ~Lt(car'[id].time, car[id].time)]_vars

\* C9 as stated: the snapshot made by the first real pulse of a lane has time 0,
\* whichever lanes have pulsed before.
C9_FirstPulseTimeZero ==
  [][\A id \in Lanes :
       (times[id].prev = NaN /\ times'[id].prev # NaN /\ car'[id] # NoCar)
         => car'[id].time = 0]_vars

\* C9: the time of every new snapshot is the raw time of the lane's latest
\* pulse minus the one offset of the session (0 while a raw time of 0 leaves
\* the offset unset), and the offset, once set, is never changed; so the first
\* pulse of a lane shows 0 only if no snapshot has set the offset before.
C9_TimeSinceSessionOffset ==
  [][/\ \A id \in Lanes :
          (car'[id] # NoCar /\ car'[id] # car[id]) =>
            \/ car'[id].time = Sub(times'[id].prev, offset')
            \/ times'[id].prev = 0 /\ car'[id].time = 0 /\ ~Truthy(offset)
     /\ Truthy(offset) => offset' = offset]_vars

\* the first real pulse of a lane makes a snapshot whose time is not 0
C9_Witness ==
  /\ last.op = "pulse" /\ last.kind = "first"
  /\ car[last.id] # NoCar
  /\ car[last.id].time \notin {0, NaN}
  /\ Truthy(offset)

\* C10: a pulse whose raw time is not above the previous raw time of the lane
\* leaves laps and bestLap of the lane as they were and sets lastLap to NaN.
C10_StalePulse ==
  [][(last'.op = "pulse" /\ last'.kind = "stale") =>
       LET id == last'.id
       IN /\ times'[id].laps = times[id].laps
          /\ times'[id].bestlap = times[id].bestlap
          /\ times'[id].lastlap = NaN
          /\ car'[id] # NoCar =>
               /\ car'[id].laps = times[id].laps
               /\ car'[id].bestLap = times[id].bestlap
               /\ car'[id].lastLap = NaN]_vars

\* a stale pulse on a lane that has a lap and a best lap, and a snapshot
C10_Witness ==
  /\ last.op = "pulse" /\ last.kind = "stale"
  /\ times[last.id].laps >= 1
  /\ times[last.id].bestlap # NaN
  /\ car[last.id] # NoCar

\* C11: once the snapshot of a lane is finished, the lane is in the ignore
\* mask, and every later snapshot of the lane is finished and has the same
\* laps and the same best lap.
C11_FinishedIsSticky ==
  [][\A id \in Lanes :
       (car[id] # NoCar /\ car[id].finished) =>
         /\ id \in mask /\ id \in mask'
         /\ car'[id].finished
         /\ car'[id].laps = car[id].laps
         /\ car'[id].bestLap = car[id].bestLap]_vars

\* a lane whose snapshot is finished at the lap limit, and then a pulse of
\* another lane that is not finished makes a snapshot
C11_Witness ==
  \E id \in Lanes :
    /\ car[id] # NoCar /\ car[id].finished
    /\ car[id].laps = LapLimit
    /\ last.op = "pulse" /\ last.id # id
    /\ car[last.id] # NoCar /\ ~car[last.id].finished

\* C12 as stated: while the session is not finished the current lap is the
\* completed lap plus one, in every value of the progress.
C12_CurrentIsCompletedPlusOne ==
  ~finished => lap[1] = lap[2] + 1

\* C12: the progress starts as (0, 0); from the first snapshot on, while the
\* session is not finished, the current lap is the completed lap plus one;
\* once the session is finished the current lap never changes again and the
\* completed lap does not decrease.
C12_ProgressAfterFirstSnapshot ==
  [][/\ ~finished' =>
          \/ lap' = << 0, 0 >> /\ lap = << 0, 0 >>
          \/ lap'[1] = lap'[2] + 1
     /\ finished => (lap'[1] = lap[1] /\ lap'[2] >= lap[2])]_vars

\* the session is finished and the completed lap has caught up with the
\* frozen current lap
C12_Witness ==
  /\ finished
  /\ lap[1] >= 1
  /\ lap[2] >= lap[1]

\* C13: on every bitmask of cu.getPit(), the pit count of a lane that has a
\* snapshot stream goes up by one if the lane's bit goes from false (also:
\* no bitmask yet) to true, and stays as it is otherwise.
C13_PitCount ==
  [][last'.op = "pit" =>
       \A id \in active :
         pitv'[id].count =
           pitv[id].count + (IF id \notin cuPit /\ id \in cuPit' THEN 1 ELSE 0)]_vars

\* the bits of auto and pace in the initial mask
AutoPaceBits ==
  (IF options.auto THEN {} ELSE {AutoLane}) \cup (IF options.pace THEN {} ELSE {PaceLane})

\* C14 as stated: the mask pushed at construction holds bit 6 when auto is
\* off, bit 7 when pace is off, the bits drivers..7 when drivers is set, and
\* no other bit.
C14_InitialMaskUpToSeven ==
  pc = "done" =>
    cuMask = AutoPaceBits \cup
               (IF options.drivers # 0 THEN options.drivers..LastLane ELSE {})

\* C14: a session is constructed only for drivers of 0..6, and the mask it
\* pushes holds bit 6 when auto is off, bit 7 when pace is off, the bits
\* drivers..5 when drivers is set, and no other bit.
C14_InitialMask ==
  pc = "done" =>
    /\ options.drivers <= AutoLane
    /\ (last.op = "init" =>
          /\ cuMask = mask
          /\ mask = initMask(options)
          /\ mask = AutoPaceBits \cup
                      (IF options.drivers # 0 THEN options.drivers..(AutoLane - 1) ELSE {}))

\* a session made with four drivers, the autonomous car and no pace car
C14_Witness ==
  /\ pc = "done" /\ last.op = "init"
  /\ options.drivers = 4 /\ options.auto /\ ~options.pace
  /\ cuMask = {4, 5, 7}

\* C15: the countdown goes down on a tick only if the session is started and,
\* with pause configured, the last start signal is not 0; with pause
\* configured and the start signal at 0 no tick changes it.
C15_CountdownGate ==
  [][timer' # timer =>
       /\ timer' < timer
       /\ started
       /\ options.pause => cuStart # 0]_vars

\* C16: a stale pulse leaves the previous raw time of the lane as it was; the
\* previous raw time changes only on the first pulse of the lane and on a lap.
C16_StaleKeepsPrevTime ==
  [][\A id \in Lanes :
       times'[id].prev # times[id].prev =>
         /\ last'.op = "pulse" /\ last'.id = id
         /\ last'.kind \in {"first", "lap"}]_vars

\* C17: a lane becomes finished only on a lap, and on a lap exactly when the
\* session was stopped, or the lap limit is set and the new lap count has
\* reached it, or slot mode is off and the session is already finished; the
\* lane is then in the ignore mask after the same step.
C17_FinishPredicate ==
  [][\A id \in Lanes :
       LET lapped == last'.op = "pulse" /\ last'.id = id /\ last'.kind = "lap"
           marked == times'[id].fini /\ ~times[id].fini
       IN /\ marked <=>
               /\ lapped
               /\ ~times[id].fini
               /\ \/ stopped
                  \/ options.laps # 0 /\ times'[id].laps >= options.laps
                  \/ ~options.slotmode /\ finished
          /\ marked => id \in mask' /\ id \in cuMask']_vars

\* in slot mode another lane has finished the session, and this lane counts
\* a lap below the limit without being marked finished
C17_Witness ==
  /\ last.op = "pulse" /\ last.kind = "lap"
  /\ options.slotmode /\ finished /\ ~stopped
  /\ times[last.id].laps >= 1
  /\ ~times[last.id].fini
  /\ \E id \in Lanes : times[id].fini

\* C18: for a mode that is none of practice, qualifying, race the
\* construction ends in an error: no session is made, no ranking is emitted.
C18_UnknownModeFails ==
  options.mode \notin Modes => (pc # "done" /\ ranking = << >>)

\* C19: the construction terminates for every drivers of 1..8: the drivers
\* loop reaches its exit condition and the constructor runs to its end.
C19_ConstructionTerminates ==
  <>(pc = "done")

\* C20: with a lap limit N no lane counts more than N laps and the completed
\* lap is at most N; a lane with N laps is finished, in its snapshot too,
\* and is in the ignore mask, so that its later pulses are dropped.
C20_LapsWithinLimit ==
  options.laps # 0 =>
    /\ lap[2] <= options.laps
    /\ \A id \in Lanes :
         /\ times[id].laps <= options.laps
         /\ times[id].laps = options.laps => (times[id].fini /\ id \in mask)
         /\ (car[id] # NoCar /\ car[id].laps = options.laps) => car[id].finished

\* a lane has counted the N laps of the limit, its snapshot shows them, and
\* the completed lap is N
C20_Witness ==
  /\ options.laps = LapLimit
  /\ lap[2] = LapLimit
  /\ \E id \in Lanes :
       /\ times[id].laps = LapLimit
       /\ car[id] # NoCar /\ car[id].laps = LapLimit /\ car[id].finished

====
